---------------------------- MODULE Spec2Model ----------------------------
(***************************************************************************)
(* A model of the canary-scanner secret detection tool:                    *)
(*   src/scanner/core.py  -- Scanner: entropy test, file classification,   *)
(*                           line scanning, directory walk                 *)
(*   src/canary.py        -- CanaryScanner and main: orchestration,        *)
(*                           result generation, masking, exit codes        *)
(*                                                                         *)
(* Text is a sequence of one-character strings.  Entropy is kept in        *)
(* micro-bits (bits * 10^6) so that the comparison against the 4.5 bit     *)
(* threshold is an integer comparison.                                     *)
(***************************************************************************)
EXTENDS Integers, Sequences, FiniteSets, TLC

(***************************************************************************)
(* Bounds of the model                                                     *)
(***************************************************************************)
\* I/O failures (an open or a read raising OSError) in one run
MaxFailures == 2
\* length of the findings lists fed to the result functions in SpecCalc
MaxFindings == 4

(***************************************************************************)
(* Text primitives (Python str methods used by the scanner)                *)
(***************************************************************************)
Whitespace == {" ", "\t", "\n"}

UpperLetters ==
    <<"A","B","C","D","E","F","G","H","I","J","K","L","M",
      "N","O","P","Q","R","S","T","U","V","W","X","Y","Z">>

LowerLetters ==
    <<"a","b","c","d","e","f","g","h","i","j","k","l","m",
      "n","o","p","q","r","s","t","u","v","w","x","y","z">>

Digits == {"0","1","2","3","4","5","6","7","8","9"}

Range(s) == {s[i] : i \in 1..Len(s)}

MinOf(S) == CHOOSE x \in S : \A y \in S : x <= y

MaxOf(S) == CHOOSE x \in S : \A y \in S : x >= y

\* str.strip(): drop leading and trailing whitespace
strip(s) ==
    LET keep == {i \in 1..Len(s) : s[i] \notin Whitespace}
    IN  IF keep = {} THEN <<>> ELSE SubSeq(s, MinOf(keep), MaxOf(keep))

\* str.startswith(c) for a one-character prefix
startswith(s, c) == Len(s) >= 1 /\ s[1] = c

lower_char(c) ==
    IF \E i \in 1..Len(UpperLetters) : UpperLetters[i] = c
    THEN LowerLetters[CHOOSE i \in 1..Len(UpperLetters) : UpperLetters[i] = c]
    ELSE c

\* str.lower()
lower(s) == [i \in 1..Len(s) |-> lower_char(s[i])]

\* os.path.join(root, name) for a root that does not end in "/"
path_join(root, name) == root \o <<"/">> \o name

\* os.path.splitext(p)[1]: the text from the last "." of the last path
\* component on, unless that component has only leading dots before it
splitext_ext(p) ==
    LET seps    == {i \in 1..Len(p) : p[i] = "/"}
        sepIdx  == IF seps = {} THEN 0 ELSE MaxOf(seps)
        dots    == {i \in 1..Len(p) : p[i] = "."}
        dotIdx  == IF dots = {} THEN 0 ELSE MaxOf(dots)
    IN  IF dotIdx > sepIdx
           /\ \E k \in (sepIdx + 1)..(dotIdx - 1) : p[k] # "."
        THEN SubSeq(p, dotIdx, Len(p))
        ELSE <<>>

(***************************************************************************)
(* Pattern.regex.search(line).  A regex of the model is                    *)
(*     prefix [cls]{min,}                                                  *)
(* a literal prefix followed by a greedy run of at least `min` characters  *)
(* of the class `cls`.  search returns the leftmost match, group(0), or    *)
(* NoMatch.  Every regex of the model has min >= 1, so a match is never    *)
(* the empty text.                                                         *)
(***************************************************************************)
NoMatch == <<>>

\* number of consecutive characters of cls in line from position j on
RunLen(line, j, cls) ==
    MaxOf({k \in 0..(Len(line) - j + 1) :
              \A m \in j..(j + k - 1) : line[m] \in cls})

PrefixAt(line, i, prefix) ==
    /\ i + Len(prefix) - 1 <= Len(line)
    /\ \A m \in 1..Len(prefix) : line[i + m - 1] = prefix[m]

regex_search(regex, line) ==
    LET starts == {i \in 1..Len(line) :
                      /\ PrefixAt(line, i, regex.prefix)
                      /\ RunLen(line, i + Len(regex.prefix), regex.cls) >= regex.min}
    IN  IF starts = {} THEN NoMatch
        ELSE LET i == MinOf(starts)
                 n == Len(regex.prefix) + RunLen(line, i + Len(regex.prefix), regex.cls)
             IN  SubSeq(line, i, i + n - 1)

(***************************************************************************)
(* Scanner.calculate_entropy / is_likely_secret  (core.py 35-78)           *)
(***************************************************************************)
\* round(10^6 * log2(k)) for k = 1..33
Log2Table ==
    <<0, 1000000, 1584963, 2000000, 2321928, 2584963, 2807355, 3000000,
      3169925, 3321928, 3459432, 3584963, 3700440, 3807355, 3906891, 4000000,
      4087463, 4169925, 4247928, 4321928, 4392317, 4459432, 4523562, 4584963,
      4643856, 4700440, 4754888, 4807355, 4857981, 4906891, 4954196, 5000000,
      5044394>>

RECURSIVE SumOver(_, _)
SumOver(S, f) ==
    IF S = {} THEN 0
    ELSE LET x == CHOOSE y \in S : TRUE
         IN  f[x] + SumOver(S \ {x}, f)

\* char_counts of calculate_entropy
char_counts(text) ==
    [c \in Range(text) |-> Cardinality({i \in 1..Len(text) : text[i] = c})]

\* Shannon entropy in micro-bits.  With p = count/len,
\*   -sum p*log2(p) = log2(len) - (sum count*log2(count)) / len
calculate_entropy(text) ==
    IF text = <<>> THEN 0
    ELSE LET counts == char_counts(text)
             n      == Len(text)
             weigh  == [c \in DOMAIN counts |-> counts[c] * Log2Table[counts[c]]]
         IN  (n * Log2Table[n] - SumOver(DOMAIN counts, weigh)) \div n

\* default min_entropy of is_likely_secret: 4.5 bits
DefaultMinEntropy == 4500000

\* len(text) < 12 is "too short to be meaningful"
MinSecretLen == 12

\* faulty variant: the length floor is 8 instead of 12
is_likely_secret_short_floor(text, min_entropy) ==
    IF Len(text) < 8 THEN FALSE
    ELSE calculate_entropy(text) >= min_entropy

is_likely_secret(text, min_entropy) ==
    IF Len(text) < MinSecretLen THEN FALSE
    ELSE calculate_entropy(text) >= min_entropy


(***************************************************************************)
(* The pattern set handed to Scanner (the result of load_patterns): the    *)
(* code reads of a Pattern its regex, rule_id, description and confidence  *)
(***************************************************************************)
LowerSet == Range(LowerLetters)

UpperSet == Range(UpperLetters)

PatternList ==
    << [rule_id |-> "GENERIC", description |-> "generic token", confidence |-> "Low",
        regex |-> [prefix |-> <<>>, cls |-> LowerSet \cup {" "}, min |-> 6]],
       [rule_id |-> "AWS", description |-> "access key id", confidence |-> "High",
        regex |-> [prefix |-> <<"A","K","I","A">>, cls |-> UpperSet \cup Digits, min |-> 4]],
       [rule_id |-> "PASSWORD", description |-> "password assignment", confidence |-> "Medium",
        regex |-> [prefix |-> <<"p","w","=">>, cls |-> LowerSet \cup Digits, min |-> 1]],
       [rule_id |-> "KEY", description |-> "labelled key", confidence |-> "Low",
        regex |-> [prefix |-> <<"k","e","y",":">>, cls |-> LowerSet, min |-> 1]] >>

\* faulty variant: the medium bucket also takes the High patterns
Scanner_medium_takes_high(patterns) ==
    [patterns |-> patterns,
     high_confidence_patterns   |-> SelectSeq(patterns, LAMBDA p : p.confidence = "High"),
     medium_confidence_patterns |-> SelectSeq(patterns, LAMBDA p : p.confidence \in {"High", "Medium"}),
     low_confidence_patterns    |-> SelectSeq(patterns, LAMBDA p : p.confidence = "Low")]

\* Scanner.__init__ (core.py 22-33): the three tier buckets
Scanner(patterns) ==
    [patterns |-> patterns,
     high_confidence_patterns   |-> SelectSeq(patterns, LAMBDA p : p.confidence = "High"),
     medium_confidence_patterns |-> SelectSeq(patterns, LAMBDA p : p.confidence = "Medium"),
     low_confidence_patterns    |-> SelectSeq(patterns, LAMBDA p : p.confidence = "Low")]

\* the attributes class Scanner defines (core.py 19-235)
ScannerAttributes ==
    {"patterns", "high_confidence_patterns", "medium_confidence_patterns",
     "low_confidence_patterns", "calculate_entropy", "is_likely_secret",
     "is_binary_file", "should_skip_file", "scan_file", "scan_directory"}

(***************************************************************************)
(* The file tree the run reads.  A file has a name, its text lines (each   *)
(* with its line end) and nullAt, the 1-based offset of its first null     *)
(* byte (0: none).                                                         *)
(***************************************************************************)
L_comment == <<"#"," ","A","K","I","A","A","B","C","D","1","2","3","4","\n">>

L_blank == <<" "," ","\n">>

L_mixed ==
    <<"k","=","A","K","I","A","A","B","C","D","1","2","3","4"," ","p","w","=","x","1",
      " ","k","e","y",":","a","b","c","d","e","f","g","h","i","j","k","l","m","n",
      "o","p","q","r","s","t","u","v","w","\n">>

L_key ==
    <<"k","e","y",":","a","b","c","d","e","f","g","h","i","j","k","l","m","n",
      "o","p","q","r","s","t","u","v","w","\n">>

L_indented_comment == <<" "," ","#","p","w","=","a","b","c","\n">>

L_padded ==
    <<"a","b","c","d","e","f","g","h","i","j","k","l","m","n","o","p","q","r",
      "s","t","u","v"," ",";","\n">>

L_repeat ==
    <<"p","w","=","a","a","a","a","a","a","a","a","a","a","a","a",";",
      "a","b","c","d","e","f","g","h","i","j","k","l","m","n","o","p","q","r",
      "s","t","u","v","w","\n">>

L_aws == <<"A","K","I","A","A","B","C","D","1","2","3","4","\n">>

L_pw == <<"p","w","=","x","1"," ","p","w","=","y","2","\n">>

FileIds == {"app", "png", "env", "config", "main", "blob", "late", "xjs"}

FileInfo ==
    [f \in FileIds |->
        CASE f = "app"    -> [name |-> <<"a","p","p",".","p","y">>, nullAt |-> 0,
                              lines |-> <<L_comment, L_blank, L_mixed, L_key>>]
          [] f = "png"    -> [name |-> <<"i",".","P","N","G">>, nullAt |-> 0,
                              lines |-> <<L_aws>>]
          [] f = "env"    -> [name |-> <<".","e","n","v">>, nullAt |-> 0,
                              lines |-> <<L_pw>>]
          [] f = "config" -> [name |-> <<"c","o","n","f","i","g">>, nullAt |-> 0,
                              lines |-> <<L_aws>>]
          [] f = "main"   -> [name |-> <<"m","a","i","n",".","p","y">>, nullAt |-> 0,
                              lines |-> <<L_indented_comment, L_padded, L_repeat>>]
          [] f = "blob"   -> [name |-> <<"b","l","o","b">>, nullAt |-> 7,
                              lines |-> <<L_aws>>]
          [] f = "late"   -> [name |-> <<"l","a","t","e">>, nullAt |-> 1025,
                              lines |-> <<L_aws>>]
          [] f = "xjs"    -> [name |-> <<"x",".","j","s">>, nullAt |-> 0,
                              lines |-> <<L_pw>>] ]

DirIds == {"p", "git", "src", "nm", "lib"}

NoDir == "-"

\* subdirs and files in the order the directory listing gives them
DirInfo ==
    [d \in DirIds |->
        CASE d = "p"   -> [name |-> <<"p">>, parent |-> NoDir,
                           subdirs |-> <<"git", "src">>, files |-> <<"app", "png", "env">>]
          [] d = "git" -> [name |-> <<".","g","i","t">>, parent |-> "p",
                           subdirs |-> <<>>, files |-> <<"config">>]
          [] d = "src" -> [name |-> <<"s","r","c">>, parent |-> "p",
                           subdirs |-> <<"nm">>, files |-> <<"main", "blob", "late">>]
          [] d = "nm"  -> [name |-> <<"n","o","d","e","_","m","o","d","u","l","e","s">>,
                           parent |-> "src", subdirs |-> <<"lib">>, files |-> <<>>]
          [] d = "lib" -> [name |-> <<"l","i","b">>, parent |-> "nm",
                           subdirs |-> <<>>, files |-> <<"xjs">>] ]

\* the directory holding file f
FileDir(f) == CHOOSE d \in DirIds : f \in Range(DirInfo[d].files)

\* the paths main may be given: a directory, a directory whose own name is
\* on the directory denylist, a regular file, a path that does not exist,
\* and a path that exists but is neither a file nor a directory
Targets ==
    { [path |-> <<"p">>, kind |-> "dir", node |-> "p"],
      [path |-> <<"p","/",".","g","i","t">>, kind |-> "dir", node |-> "git"],
      [path |-> <<"p","/","a","p","p",".","p","y">>, kind |-> "file", node |-> "app"],
      [path |-> <<"n","o","p","e">>, kind |-> "missing", node |-> NoDir],
      [path |-> <<"p","/","f","i","f","o">>, kind |-> "other", node |-> NoDir] }

\* os.path.exists / isfile / isdir of the target
path_exists(target) == target.kind # "missing"

path_isfile(target) == target.kind = "file"

path_isdir(target) == target.kind = "dir"

\* the path os.walk gives for directory d of a walk rooted at target
RECURSIVE DirPath(_, _)
DirPath(d, target) ==
    IF d = target.node THEN target.path
    ELSE path_join(DirPath(DirInfo[d].parent, target), DirInfo[d].name)

(***************************************************************************)
(* Finding (core.py 9-17)                                                  *)
(***************************************************************************)
Finding(file_path, line_number, rule_id, description, matched_string, confidence) ==
    [file_path |-> file_path, line_number |-> line_number, rule_id |-> rule_id,
     description |-> description, matched_string |-> matched_string,
     confidence |-> confidence]

(***************************************************************************)
(* Scanner.should_skip_file / is_binary_file (core.py 80-124)              *)
(***************************************************************************)
skip_extensions ==
    {<<".","e","x","e">>, <<".","d","l","l">>, <<".","s","o">>,
     <<".","d","y","l","i","b">>, <<".","b","i","n">>, <<".","j","a","r">>,
     <<".","w","a","r">>, <<".","e","a","r">>, <<".","z","i","p">>,
     <<".","t","a","r">>, <<".","g","z">>, <<".","b","z","2">>,
     <<".","x","z">>, <<".","r","a","r">>, <<".","7","z">>,
     <<".","j","p","g">>, <<".","j","p","e","g">>, <<".","p","n","g">>,
     <<".","g","i","f">>, <<".","b","m","p">>, <<".","t","i","f","f">>,
     <<".","i","c","o">>, <<".","m","p","3">>, <<".","m","p","4">>,
     <<".","a","v","i">>, <<".","m","o","v">>, <<".","w","m","v">>,
     <<".","f","l","v">>, <<".","p","d","f">>, <<".","d","o","c">>,
     <<".","d","o","c","x">>, <<".","p","p","t">>, <<".","p","p","t","x">>,
     <<".","x","l","s">>, <<".","x","l","s","x">>, <<".","p","y","c">>,
     <<".","p","y","o">>, <<".","c","l","a","s","s">>, <<".","o">>,
     <<".","o","b","j">>}

\* chunk_size of is_binary_file
ChunkSize == 1024

\* faulty variant: a file that cannot be opened is taken as text
is_binary_file_fail_open(f, open_ok) ==
    open_ok /\ FileInfo[f].nullAt >= 1 /\ FileInfo[f].nullAt <= ChunkSize

\* is_binary_file: a null byte among the first chunk_size bytes; a file
\* that cannot be opened or read (open_ok = FALSE) is taken as binary
is_binary_file(f, open_ok) ==
    IF open_ok
    THEN FileInfo[f].nullAt >= 1 /\ FileInfo[f].nullAt <= ChunkSize
    ELSE TRUE

should_skip_file(file_path, f, open_ok) ==
    LET file_ext == lower(splitext_ext(file_path))
    IN  IF file_ext \in skip_extensions THEN TRUE
        ELSE is_binary_file(f, open_ok)

\* should_skip_file opens the file only when the extension check passes
OpensForBinaryCheck(file_path) ==
    lower(splitext_ext(file_path)) \notin skip_extensions

(***************************************************************************)
(* Scanner.scan_file, the body of the loop over lines (core.py 144-192)    *)
(***************************************************************************)
\* faulty variant: the entropy test is applied to high and medium matches as well
RECURSIVE scan_trusted_entropy_gated(_, _, _, _)
scan_trusted_entropy_gated(patterns, file_path, line_num, line) ==
    IF patterns = <<>> THEN <<>>
    ELSE LET pattern      == Head(patterns)
             match        == regex_search(pattern.regex, line)
             matched_text == strip(match)
             rest         == scan_trusted_entropy_gated(Tail(patterns), file_path,
                                                        line_num, line)
         IN  IF match # NoMatch /\ is_likely_secret(matched_text, DefaultMinEntropy)
             THEN <<Finding(file_path, line_num, pattern.rule_id, pattern.description,
                            matched_text, pattern.confidence)>> \o rest
             ELSE rest

\* the loops over high and medium confidence patterns: every match is yielded
RECURSIVE scan_trusted(_, _, _, _)
scan_trusted(patterns, file_path, line_num, line) ==
    IF patterns = <<>> THEN <<>>
    ELSE LET pattern      == Head(patterns)
             match        == regex_search(pattern.regex, line)
             matched_text == strip(match)
             rest         == scan_trusted(Tail(patterns), file_path, line_num, line)
         IN  IF match # NoMatch
             THEN <<Finding(file_path, line_num, pattern.rule_id, pattern.description,
                            matched_text, pattern.confidence)>> \o rest
             ELSE rest

\* the loop over low confidence patterns: a match is yielded only when
\* its trimmed text passes the entropy test
RECURSIVE scan_low(_, _, _, _)
scan_low(patterns, file_path, line_num, line) ==
    IF patterns = <<>> THEN <<>>
    ELSE LET pattern      == Head(patterns)
             match        == regex_search(pattern.regex, line)
             matched_text == strip(match)
             rest         == scan_low(Tail(patterns), file_path, line_num, line)
         IN  IF match # NoMatch
             THEN IF pattern.confidence = "Low"
                     /\ ~is_likely_secret(matched_text, DefaultMinEntropy)
                  THEN rest
                  ELSE <<Finding(file_path, line_num, pattern.rule_id,
                                 pattern.description, matched_text,
                                 pattern.confidence)>> \o rest
             ELSE rest

\* faulty variant: the comment test is made on the line before it is trimmed
skip_line_untrimmed_comment(raw) ==
    strip(raw) = <<>> \/ startswith(raw, "#")

\* whether the line is skipped as empty or as a comment (core.py 144-146)
skip_line(raw) ==
    LET line == strip(raw)
    IN  line = <<>> \/ startswith(line, "#")

\* faulty variant: a line that matched in one tier is not tried in the next
scan_line_first_tier_wins(scanner, file_path, line_num, raw) ==
    LET line   == strip(raw)
        high   == scan_trusted(scanner.high_confidence_patterns, file_path, line_num, line)
        medium == scan_trusted(scanner.medium_confidence_patterns, file_path, line_num, line)
        low    == scan_low(scanner.low_confidence_patterns, file_path, line_num, line)
    IN  IF skip_line(raw) THEN <<>>
        ELSE IF high # <<>> THEN high
        ELSE IF medium # <<>> THEN medium
        ELSE low

\* faulty variant: the low confidence patterns are tried first
scan_line_low_first(scanner, file_path, line_num, raw) ==
    LET line == strip(raw)
    IN  IF skip_line(raw) THEN <<>>
        ELSE scan_low(scanner.low_confidence_patterns, file_path, line_num, line)
             \o scan_trusted(scanner.high_confidence_patterns, file_path, line_num, line)
             \o scan_trusted(scanner.medium_confidence_patterns, file_path, line_num, line)

\* the findings one line of the file yields
scan_line(scanner, file_path, line_num, raw) ==
    LET line == strip(raw)
    IN  IF skip_line(raw) THEN <<>>
        ELSE scan_trusted(scanner.high_confidence_patterns, file_path, line_num, line)
             \o scan_trusted(scanner.medium_confidence_patterns, file_path, line_num, line)
             \o scan_low(scanner.low_confidence_patterns, file_path, line_num, line)

(***************************************************************************)
(* Scanner.scan_directory (core.py 198-235)                                *)
(***************************************************************************)
skip_dirs ==
    {<<".","g","i","t">>, <<".","s","v","n">>, <<".","h","g">>,
     <<".","b","z","r">>,
     <<"n","o","d","e","_","m","o","d","u","l","e","s">>,
     <<"_","_","p","y","c","a","c","h","e","_","_">>,
     <<".","p","y","t","e","s","t","_","c","a","c","h","e">>,
     <<"v","e","n","v">>, <<"e","n","v">>, <<".","e","n","v">>,
     <<"v","i","r","t","u","a","l","e","n","v">>, <<"b","u","i","l","d">>,
     <<"d","i","s","t">>, <<"t","a","r","g","e","t">>, <<"o","u","t">>,
     <<".","i","d","e","a">>, <<".","v","s","c","o","d","e">>,
     <<".","v","s">>, <<"c","o","v","e","r","a","g","e">>,
     <<".","c","o","v","e","r","a","g","e">>,
     <<".","n","y","c","_","o","u","t","p","u","t">>}

\* faulty variant: dirs is left as listed
prune_dirs_keep_all(dirs) == SelectSeq(dirs, LAMBDA d : TRUE)

\* dirs[:] = [d for d in dirs if d not in skip_dirs]
prune_dirs(dirs) == SelectSeq(dirs, LAMBDA d : DirInfo[d].name \notin skip_dirs)

(***************************************************************************)
(* CanaryScanner._mask_secret / _calculate_exit_code (canary.py 203-226)   *)
(***************************************************************************)
Stars(n) == [i \in 1..n |-> "*"]

_mask_secret(secret, verbose) ==
    IF verbose THEN secret
    ELSE IF Len(secret) <= 8 THEN Stars(Len(secret))
    ELSE SubSeq(secret, 1, 4) \o Stars(Len(secret) - 8)
         \o SubSeq(secret, Len(secret) - 3, Len(secret))

\* faulty variant: the "medium" threshold looks at Medium findings only
_calculate_exit_code_medium_only(findings, fail_on) ==
    IF findings = <<>> THEN 0
    ELSE IF fail_on = "any" THEN 1
    ELSE IF fail_on = "high"
         THEN IF \E i \in 1..Len(findings) : findings[i].confidence = "High"
              THEN 1 ELSE 0
    ELSE IF fail_on = "medium"
         THEN IF \E i \in 1..Len(findings) : findings[i].confidence = "Medium"
              THEN 1 ELSE 0
    ELSE 1

_calculate_exit_code(findings, fail_on) ==
    IF findings = <<>> THEN 0
    ELSE IF fail_on = "any" THEN 1
    ELSE IF fail_on = "high"
         THEN IF \E i \in 1..Len(findings) : findings[i].confidence = "High"
              THEN 1 ELSE 0
    ELSE IF fail_on = "medium"
         THEN IF \E i \in 1..Len(findings) :
                     findings[i].confidence \in {"High", "Medium"}
              THEN 1 ELSE 0
    ELSE 1

(***************************************************************************)
(* State of one run of main                                                *)
(***************************************************************************)
VARIABLES
    pc,                 \* where the run is
    args,               \* parsed arguments: target path, fail_on, report_url, repository
    patterns_loadable,  \* whether load_patterns succeeds on args.patterns_file
    scanner,            \* CanaryScanner.scanner
    dashboard_url,      \* whether configure_dashboard_integration has set the url
    scan_type,          \* scan_target: "file" or "directory"
    walk_stack,         \* os.walk: directories still to visit, next first
    walk_root,          \* scan_directory: root of the current os.walk step
    file_queue,         \* scan_directory: files of walk_root still to scan
    cur_file,           \* scan_file: the file being scanned
    cur_path,           \* scan_file: file_path
    line_num,           \* scan_file: line_num of the last line read
    file_findings,      \* findings the running scan_file has yielded so far
    all_findings,       \* scan_directory: all_findings
    findings,           \* scan_target: findings, once the scan has returned
    results,            \* scan_target: results
    exit_code,          \* what the process exits with
    stderr,             \* the error or notice main printed
    open_fds,           \* file descriptors open: <<file, mode of the open>>
    io_failed,          \* history: the <<file, stage>> whose open or read raised
    yielded,            \* history: every Finding scan_file has yielded
    handed,             \* history: the files passed to scan_file, in order
    lines_read,         \* history: per file, the lines read from it
    outcome,            \* history: per file, how its scan went
    interrupt,          \* history: where a KeyboardInterrupt arrived and what
                        \*          had been aggregated by then
    call                \* a single function call, in SpecCalc

vars ==
    <<pc, args, patterns_loadable, scanner, dashboard_url, scan_type, walk_stack,
      walk_root, file_queue, cur_file, cur_path, line_num, file_findings,
      all_findings, findings, results, exit_code, stderr, open_fds, io_failed,
      yielded, handed, lines_read, outcome, interrupt, call>>

NoScanner == [patterns |-> <<>>, high_confidence_patterns |-> <<>>,
              medium_confidence_patterns |-> <<>>, low_confidence_patterns |-> <<>>]

NoFile == "-"

NoResults == [made |-> FALSE]

NoExit == -1

NoInterrupt == [at |-> "-", aggregated |-> <<>>]

\* a call of SpecCalc: the function, its arguments, and what it returned
\* (code for _calculate_exit_code, preview for _mask_secret, built for
\* Scanner, likely for is_likely_secret, results or the exception raised
\* for _generate_scan_results)
NoCall == [fn |-> "-", findings |-> <<>>, fail_on |-> "any", secret |-> <<>>,
           verbose |-> FALSE, code |-> NoExit, preview |-> <<>>, done |-> FALSE,
           patterns |-> <<>>, built |-> NoScanner, text |-> <<>>, min_entropy |-> 0,
           likely |-> FALSE, results |-> NoResults, raised |-> "-"]

FailOnChoices == {"any", "high", "medium"}

Idle ==
    /\ scanner = NoScanner
    /\ dashboard_url = FALSE
    /\ scan_type = "-"
    /\ walk_stack = <<>>
    /\ walk_root = NoDir
    /\ file_queue = <<>>
    /\ cur_file = NoFile
    /\ cur_path = <<>>
    /\ line_num = 0
    /\ file_findings = <<>>
    /\ all_findings = <<>>
    /\ findings = <<>>
    /\ results = NoResults
    /\ exit_code = NoExit
    /\ stderr = "-"
    /\ open_fds = {}
    /\ io_failed = {}
    /\ yielded = <<>>
    /\ handed = <<>>
    /\ lines_read = [f \in FileIds |-> 0]
    /\ outcome = [f \in FileIds |-> "unvisited"]
    /\ interrupt = NoInterrupt

Init ==
    /\ pc = "start"
    /\ args \in [target : Targets, fail_on : FailOnChoices, verbose : BOOLEAN,
                 report_url : BOOLEAN, repository : BOOLEAN]
    /\ patterns_loadable \in BOOLEAN
    /\ call = NoCall
    /\ Idle

\* main returns code, or exits through an except clause, having printed msg
Exit(code, msg) ==
    /\ pc' = "done"
    /\ exit_code' = code
    /\ stderr' = msg

(***************************************************************************)
(* main (canary.py 492-566)                                                *)
(***************************************************************************)
\* 502-506: the up-front existence check
main_validate_path ==
    /\ pc = "start"
    /\ IF ~path_exists(args.target)
       THEN Exit(2, "path does not exist")
       ELSE pc' = "init" /\ UNCHANGED <<exit_code, stderr>>
    /\ UNCHANGED <<args, patterns_loadable, scanner, dashboard_url, scan_type,
                   walk_stack, walk_root, file_queue, cur_file, cur_path, line_num,
                   file_findings, all_findings, findings, results, open_fds,
                   io_failed, yielded, handed, lines_read, outcome, interrupt, call>>

\* faulty variant: _initialize_scanner logs the load_patterns failure and goes
\* on with an empty pattern list instead of re-raising
main_init_scanner_swallows_failure ==
    /\ pc = "init"
    /\ scanner' = Scanner(IF patterns_loadable THEN PatternList ELSE <<>>)
    /\ pc' = "config"
    /\ UNCHANGED <<exit_code, stderr>>
    /\ UNCHANGED <<args, patterns_loadable, dashboard_url, scan_type,
                   walk_stack, walk_root, file_queue, cur_file, cur_path, line_num,
                   file_findings, all_findings, findings, results, open_fds,
                   io_failed, yielded, handed, lines_read, outcome, interrupt, call>>

\* 508-509 with CanaryScanner.__init__ and _initialize_scanner (65-89):
\* a load_patterns failure is re-raised and main's except Exception returns 2
main_init_scanner ==
    /\ pc = "init"
    /\ IF patterns_loadable
       THEN /\ scanner' = Scanner(PatternList)
            /\ pc' = "config"
            /\ UNCHANGED <<exit_code, stderr>>
       ELSE /\ Exit(2, "unexpected error")
            /\ UNCHANGED scanner
    /\ UNCHANGED <<args, patterns_loadable, dashboard_url, scan_type,
                   walk_stack, walk_root, file_queue, cur_file, cur_path, line_num,
                   file_findings, all_findings, findings, results, open_fds,
                   io_failed, yielded, handed, lines_read, outcome, interrupt, call>>

\* 511-522: --report-url needs --repository
main_configure_dashboard ==
    /\ pc = "config"
    /\ IF args.report_url
       THEN IF ~args.repository
            THEN /\ Exit(2, "repository is required")
                 /\ UNCHANGED dashboard_url
            ELSE /\ dashboard_url' = TRUE
                 /\ pc' = "scan"
                 /\ UNCHANGED <<exit_code, stderr>>
       ELSE /\ pc' = "scan"
            /\ UNCHANGED <<dashboard_url, exit_code, stderr>>
    /\ UNCHANGED <<args, patterns_loadable, scanner, scan_type,
                   walk_stack, walk_root, file_queue, cur_file, cur_path, line_num,
                   file_findings, all_findings, findings, results, open_fds,
                   io_failed, yielded, handed, lines_read, outcome, interrupt, call>>

(***************************************************************************)
(* CanaryScanner.scan_target (canary.py 102-144)                           *)
(***************************************************************************)
\* faulty variant: whatever is not a file is walked as a directory; os.walk of a
\* path that is no directory yields nothing
scan_target_walks_non_files ==
    /\ pc = "scan"
    /\ IF path_isfile(args.target)
       THEN /\ scan_type' = "file"
            /\ cur_file' = args.target.node
            /\ cur_path' = args.target.path
            /\ handed' = Append(handed, args.target.node)
            /\ pc' = "skipcheck"
            /\ UNCHANGED walk_stack
       ELSE /\ scan_type' = "directory"
            /\ walk_stack' = IF path_isdir(args.target) THEN <<args.target.node>> ELSE <<>>
            /\ pc' = "walk"
            /\ UNCHANGED <<cur_file, cur_path, handed>>
    /\ UNCHANGED <<args, patterns_loadable, scanner, dashboard_url,
                   walk_root, file_queue, line_num, exit_code, stderr,
                   file_findings, all_findings, findings, results, open_fds,
                   io_failed, yielded, lines_read, outcome, interrupt, call>>

\* 115-124: a file is scanned alone, a directory is walked, anything else
\* raises FileNotFoundError, which main's except clause turns into exit 2
scan_target ==
    /\ pc = "scan"
    /\ IF path_isfile(args.target)
       THEN /\ scan_type' = "file"
            /\ cur_file' = args.target.node
            /\ cur_path' = args.target.path
            /\ handed' = Append(handed, args.target.node)
            /\ pc' = "skipcheck"
            /\ UNCHANGED <<walk_stack, exit_code, stderr>>
       ELSE IF path_isdir(args.target)
       THEN /\ scan_type' = "directory"
            /\ walk_stack' = <<args.target.node>>
            /\ pc' = "walk"
            /\ UNCHANGED <<cur_file, cur_path, handed, exit_code, stderr>>
       ELSE /\ Exit(2, "target path does not exist")
            /\ UNCHANGED <<scan_type, walk_stack, cur_file, cur_path, handed>>
    /\ UNCHANGED <<args, patterns_loadable, scanner, dashboard_url,
                   walk_root, file_queue, line_num,
                   file_findings, all_findings, findings, results, open_fds,
                   io_failed, yielded, lines_read, outcome, interrupt, call>>

(***************************************************************************)
(* Scanner.scan_directory (core.py 209-235) over os.walk                   *)
(***************************************************************************)
\* scan_file has ended and list(...) holds `found`: scan_directory extends
\* all_findings with it and goes on to the next file (229-230); scan_target
\* takes it as the findings of a single-file scan (118)
scan_file_return(found) ==
    /\ IF scan_type = "directory"
       THEN /\ all_findings' = all_findings \o found
            /\ pc' = "files"
            /\ UNCHANGED findings
       ELSE /\ findings' = found
            /\ pc' = "results"
            /\ UNCHANGED all_findings
    /\ file_findings' = <<>>
    /\ cur_file' = NoFile
    /\ cur_path' = <<>>
    /\ line_num' = 0

\* 221-223: the next (root, dirs, files) of os.walk, with dirs pruned in
\* place so that the walk does not descend into them; 235 when the walk ends
walk_next ==
    /\ pc = "walk"
    /\ IF walk_stack = <<>>
       THEN /\ findings' = all_findings
            /\ pc' = "results"
            /\ UNCHANGED <<walk_stack, walk_root, file_queue>>
       ELSE LET d == Head(walk_stack)
            IN  /\ walk_root' = d
                /\ file_queue' = DirInfo[d].files
                /\ walk_stack' = prune_dirs(DirInfo[d].subdirs) \o Tail(walk_stack)
                /\ pc' = "files"
                /\ UNCHANGED findings
    /\ UNCHANGED <<args, patterns_loadable, scanner, dashboard_url, scan_type,
                   cur_file, cur_path, line_num, file_findings, all_findings,
                   results, exit_code, stderr, open_fds, io_failed, yielded,
                   handed, lines_read, outcome, interrupt, call>>

\* 225-229: the next file of the directory is passed to scan_file
next_file ==
    /\ pc = "files"
    /\ IF file_queue = <<>>
       THEN /\ pc' = "walk"
            /\ UNCHANGED <<file_queue, cur_file, cur_path, handed>>
       ELSE LET f == Head(file_queue)
            IN  /\ cur_file' = f
                /\ cur_path' = path_join(DirPath(walk_root, args.target),
                                         FileInfo[f].name)
                /\ handed' = Append(handed, f)
                /\ file_queue' = Tail(file_queue)
                /\ pc' = "skipcheck"
    /\ UNCHANGED <<args, patterns_loadable, scanner, dashboard_url, scan_type,
                   walk_stack, walk_root, line_num, file_findings, all_findings,
                   findings, results, exit_code, stderr, open_fds, io_failed,
                   yielded, lines_read, outcome, interrupt, call>>

(***************************************************************************)
(* Scanner.scan_file (core.py 126-196)                                     *)
(***************************************************************************)
\* the environment may fail one more open or read
CanFail == Cardinality(io_failed) < MaxFailures

\* faulty variant: the exception leaves scan_file, so list(...) never returns and
\* scan_directory's except clause drops the file
kept_on_error_none(found) == SubSeq(found, 1, 0)

\* 194-196: an exception while opening or reading ends the generator
\* quietly; what it yielded before stays with the consumer
kept_on_error(found) == found

\* 137-139 with should_skip_file 119-124 and the open of is_binary_file
\* (91-92): a file whose extension is on the deny-list is skipped without
\* being opened; otherwise the file is opened 'rb' for the binary check, and
\* a file that cannot be opened is taken as binary.
scan_file_should_skip ==
    /\ pc = "skipcheck"
    /\ IF ~OpensForBinaryCheck(cur_path)
       THEN /\ should_skip_file(cur_path, cur_file, TRUE)
            /\ outcome' = [outcome EXCEPT ![cur_file] = "skipped"]
            /\ scan_file_return(<<>>)
            /\ UNCHANGED <<open_fds, io_failed>>
       ELSE \/ /\ open_fds' = open_fds \cup {<<cur_file, "rb">>}
               /\ pc' = "binread"
               /\ UNCHANGED <<io_failed, outcome, cur_file, cur_path, line_num,
                              file_findings, all_findings, findings>>
            \/ /\ CanFail
               /\ io_failed' = io_failed \cup {<<cur_file, "binary_check">>}
               /\ UNCHANGED open_fds
               /\ IF should_skip_file(cur_path, cur_file, FALSE)
                  THEN /\ outcome' = [outcome EXCEPT ![cur_file] = "skipped"]
                       /\ scan_file_return(<<>>)
                  ELSE /\ pc' = "open"
                       /\ UNCHANGED <<outcome, cur_file, cur_path, line_num,
                                      file_findings, all_findings, findings>>
    /\ UNCHANGED <<args, patterns_loadable, scanner, dashboard_url, scan_type,
                   walk_stack, walk_root, file_queue, results, exit_code, stderr,
                   yielded, handed, lines_read, interrupt, call>>

\* faulty variant: no with statement, and a read that raises leaves the
\* descriptor of the binary check open
is_binary_file_read_leaks_on_error ==
    /\ pc = "binread"
    /\ \E read_ok \in BOOLEAN :
          /\ ~read_ok => CanFail
          /\ io_failed' = IF read_ok THEN io_failed
                          ELSE io_failed \cup {<<cur_file, "binary_check">>}
          /\ open_fds' = IF read_ok THEN open_fds \ {<<cur_file, "rb">>} ELSE open_fds
          /\ IF should_skip_file(cur_path, cur_file, read_ok)
             THEN /\ outcome' = [outcome EXCEPT ![cur_file] = "skipped"]
                  /\ scan_file_return(<<>>)
             ELSE /\ pc' = "open"
                  /\ UNCHANGED <<outcome, cur_file, cur_path, line_num,
                                 file_findings, all_findings, findings>>
    /\ UNCHANGED <<args, patterns_loadable, scanner, dashboard_url, scan_type,
                   walk_stack, walk_root, file_queue, results, exit_code, stderr,
                   yielded, handed, lines_read, interrupt, call>>

\* is_binary_file 92-97: the chunk is read and tested for a null byte, or
\* the read raises and the file is taken as binary; the with statement
\* closes the descriptor on both ways out
is_binary_file_read ==
    /\ pc = "binread"
    /\ \E read_ok \in BOOLEAN :
          /\ ~read_ok => CanFail
          /\ io_failed' = IF read_ok THEN io_failed
                          ELSE io_failed \cup {<<cur_file, "binary_check">>}
          /\ open_fds' = open_fds \ {<<cur_file, "rb">>}
          /\ IF should_skip_file(cur_path, cur_file, read_ok)
             THEN /\ outcome' = [outcome EXCEPT ![cur_file] = "skipped"]
                  /\ scan_file_return(<<>>)
             ELSE /\ pc' = "open"
                  /\ UNCHANGED <<outcome, cur_file, cur_path, line_num,
                                 file_findings, all_findings, findings>>
    /\ UNCHANGED <<args, patterns_loadable, scanner, dashboard_url, scan_type,
                   walk_stack, walk_root, file_queue, results, exit_code, stderr,
                   yielded, handed, lines_read, interrupt, call>>

\* 142: open(file_path, 'r', ...) succeeds or raises
scan_file_open ==
    /\ pc = "open"
    /\ \/ /\ open_fds' = open_fds \cup {<<cur_file, "r">>}
          /\ outcome' = [outcome EXCEPT ![cur_file] = "reading"]
          /\ pc' = "read"
          /\ UNCHANGED <<io_failed, cur_file, cur_path, line_num, file_findings,
                         all_findings, findings>>
       \/ /\ CanFail
          /\ io_failed' = io_failed \cup {<<cur_file, "open">>}
          /\ outcome' = [outcome EXCEPT ![cur_file] = "open_failed"]
          /\ scan_file_return(kept_on_error(file_findings))
          /\ UNCHANGED open_fds
    /\ UNCHANGED <<args, patterns_loadable, scanner, dashboard_url, scan_type,
                   walk_stack, walk_root, file_queue, results, exit_code, stderr,
                   yielded, handed, lines_read, interrupt, call>>

\* 143-192: one step of the loop over the lines: the next line is read and
\* scanned, or the file has ended, or the read raises; the with statement
\* closes the file on both ways out
scan_file_read ==
    /\ pc = "read"
    /\ \/ /\ line_num < Len(FileInfo[cur_file].lines)
          /\ LET new == scan_line(scanner, cur_path, line_num + 1,
                                  FileInfo[cur_file].lines[line_num + 1])
             IN  /\ file_findings' = file_findings \o new
                 /\ yielded' = yielded \o new
          /\ line_num' = line_num + 1
          /\ lines_read' = [lines_read EXCEPT ![cur_file] = line_num + 1]
          /\ UNCHANGED <<pc, cur_file, cur_path, all_findings, findings, open_fds,
                         io_failed, outcome>>
       \/ /\ line_num = Len(FileInfo[cur_file].lines)
          /\ open_fds' = open_fds \ {<<cur_file, "r">>}
          /\ outcome' = [outcome EXCEPT ![cur_file] = "complete"]
          /\ scan_file_return(file_findings)
          /\ UNCHANGED <<io_failed, yielded, lines_read>>
       \/ /\ CanFail
          /\ io_failed' = io_failed \cup {<<cur_file, "read">>}
          /\ open_fds' = open_fds \ {<<cur_file, "r">>}
          /\ outcome' = [outcome EXCEPT ![cur_file] = "read_failed"]
          /\ scan_file_return(kept_on_error(file_findings))
          /\ UNCHANGED <<yielded, lines_read>>
    /\ UNCHANGED <<args, patterns_loadable, scanner, dashboard_url, scan_type,
                   walk_stack, walk_root, file_queue, results, exit_code, stderr,
                   handed, interrupt, call>>

(***************************************************************************)
(* CanaryScanner._generate_scan_results (canary.py 146-201)                *)
(***************************************************************************)
confidence_count(fs, confidence) ==
    Cardinality({i \in 1..Len(fs) : fs[i].confidence = confidence})

_generate_scan_results(fs, verbose, fail_on) ==
    [made |-> TRUE,
     total_findings |-> Len(fs),
     severity_breakdown |-> [critical |-> confidence_count(fs, "High"),
                             medium   |-> confidence_count(fs, "Medium"),
                             low      |-> confidence_count(fs, "Low")],
     findings |-> [i \in 1..Len(fs) |->
                     [file_path |-> fs[i].file_path,
                      line_number |-> fs[i].line_number,
                      rule_id |-> fs[i].rule_id,
                      description |-> fs[i].description,
                      confidence |-> fs[i].confidence,
                      secret_preview |-> _mask_secret(fs[i].matched_string, verbose)]],
     ci_metadata |-> [pipeline_should_fail |-> Len(fs) > 0,
                      exit_code |-> _calculate_exit_code(fs, fail_on)]]

\* scan_target 126-144 after the scan has returned.  _generate_scan_results
\* calls self.scanner.get_scan_statistics() (156) before it builds anything;
\* class Scanner defines no such attribute, so the call raises
\* AttributeError, scan_target re-raises it (142-144) and main's
\* except Exception returns 2 (563-566).
generate_scan_results ==
    /\ pc = "results"
    /\ IF "get_scan_statistics" \in ScannerAttributes
       THEN /\ results' = _generate_scan_results(findings, args.verbose, args.fail_on)
            /\ pc' = "report"
            /\ UNCHANGED <<exit_code, stderr>>
       ELSE /\ Exit(2, "unexpected error")
            /\ UNCHANGED results
    /\ UNCHANGED <<args, patterns_loadable, scanner, dashboard_url, scan_type,
                   walk_stack, walk_root, file_queue, cur_file, cur_path, line_num,
                   file_findings, all_findings, findings, open_fds, io_failed,
                   yielded, handed, lines_read, outcome, interrupt, call>>

(***************************************************************************)
(* KeyboardInterrupt (canary.py 555-557, 568-574).  It is a BaseException: *)
(* no `except Exception` of scan_file, scan_directory or scan_target       *)
(* catches it, so it unwinds to main, which returns 130.  The with         *)
(* statement closes the file being read; the lists of findings are locals  *)
(* of the frames that are unwound.                                         *)
(***************************************************************************)
InterruptiblePcs ==
    {"start", "init", "config", "scan", "walk", "files", "skipcheck", "binread",
     "open", "read", "results"}

keyboard_interrupt ==
    /\ pc \in InterruptiblePcs
    /\ Exit(130, "interrupted")
    /\ open_fds' = {}
    /\ interrupt' = [at |-> pc, aggregated |-> all_findings \o file_findings]
    /\ UNCHANGED <<args, patterns_loadable, scanner, dashboard_url, scan_type,
                   walk_stack, walk_root, file_queue, cur_file, cur_path, line_num,
                   file_findings, all_findings, findings, results, io_failed,
                   yielded, handed, lines_read, outcome, call>>

Next ==
    \/ main_validate_path
    \/ main_init_scanner
    \/ main_configure_dashboard
    \/ scan_target
    \/ walk_next
    \/ next_file
    \/ scan_file_should_skip
    \/ is_binary_file_read
    \/ scan_file_open
    \/ scan_file_read
    \/ generate_scan_results
    \/ keyboard_interrupt

Spec == Init /\ [][Next]_vars

(***************************************************************************)
(* SpecCalc: one call of a function of CanaryScanner on inputs drawn from  *)
(* bounded sets                                                            *)
(***************************************************************************)
\* length of the secrets fed to _mask_secret
MaxSecretLen == 9

SeqsUpTo(S, n) == UNION {[1..k -> S] : k \in 0..n}

Confidences == {"High", "Medium", "Low"}

SampleFinding(confidence) ==
    Finding(<<"p","/","f">>, 1, "RULE", "sample", <<"x">>, confidence)

FindingLists ==
    {[i \in 1..Len(cs) |-> SampleFinding(cs[i])] : cs \in SeqsUpTo(Confidences, MaxFindings)}

SecretChars == {"a", "b", "*"}

Secrets == SeqsUpTo(SecretChars, MaxSecretLen)

\* the patterns the lists handed to Scanner are made of: those of
\* PatternList and a second High pattern
PatternPool ==
    Range(PatternList) \cup
    {[rule_id |-> "TOKEN", description |-> "service token", confidence |-> "High",
      regex |-> [prefix |-> <<"t","k","_">>, cls |-> LowerSet \cup Digits, min |-> 4]]}

\* length of the pattern lists handed to Scanner
MaxPatterns == 4

PatternLists == SeqsUpTo(PatternPool, MaxPatterns)

\* length of the two-letter texts handed to is_likely_secret
MaxTextLen == 12

\* texts of few distinct characters, and texts of as many distinct
\* characters as they are long
Texts ==
    SeqsUpTo({"a", "b"}, MaxTextLen)
    \cup {SubSeq(LowerLetters, 1, k) : k \in 0..Len(LowerLetters)}

\* min_entropy: 0, 3.0 bits, the default 4.5 bits
MinEntropies == {0, 3000000, DefaultMinEntropy}

ExitCodeCalls ==
    {[NoCall EXCEPT !.fn = "_calculate_exit_code", !.findings = fs, !.fail_on = fail_on] :
        fs \in FindingLists, fail_on \in FailOnChoices}

MaskCalls ==
    {[NoCall EXCEPT !.fn = "_mask_secret", !.secret = secret, !.verbose = verbose] :
        secret \in Secrets, verbose \in BOOLEAN}

ScannerCalls ==
    {[NoCall EXCEPT !.fn = "Scanner", !.patterns = patterns] :
        patterns \in PatternLists}

LikelySecretCalls ==
    {[NoCall EXCEPT !.fn = "is_likely_secret", !.text = text, !.min_entropy = min_entropy] :
        text \in Texts, min_entropy \in MinEntropies}

GenerateResultsCalls ==
    {[NoCall EXCEPT !.fn = "_generate_scan_results", !.findings = fs,
                    !.fail_on = fail_on, !.verbose = verbose] :
        fs \in FindingLists, fail_on \in FailOnChoices, verbose \in BOOLEAN}

InitCalc ==
    /\ pc = "calc"
    /\ args = [target |-> CHOOSE t \in Targets : t.node = "p", fail_on |-> "any",
               verbose |-> FALSE, report_url |-> FALSE, repository |-> FALSE]
    /\ patterns_loadable = TRUE
    /\ \/ call \in ExitCodeCalls
       \/ call \in MaskCalls
       \/ call \in ScannerCalls
       \/ call \in LikelySecretCalls
       \/ call \in GenerateResultsCalls
    /\ Idle

CalcFrame ==
    UNCHANGED <<pc, args, patterns_loadable, scanner, dashboard_url, scan_type,
                   walk_stack, walk_root, file_queue, cur_file, cur_path, line_num,
                   file_findings, all_findings, findings, results, exit_code,
                   stderr, open_fds, io_failed, yielded, handed, lines_read,
                   outcome, interrupt>>

call_calculate_exit_code ==
    /\ pc = "calc"
    /\ call.fn = "_calculate_exit_code"
    /\ ~call.done
    /\ call' = [call EXCEPT !.code = _calculate_exit_code(call.findings, call.fail_on),
                            !.done = TRUE]
    /\ CalcFrame

call_mask_secret ==
    /\ pc = "calc"
    /\ call.fn = "_mask_secret"
    /\ ~call.done
    /\ call' = [call EXCEPT !.preview = _mask_secret(call.secret, call.verbose),
                            !.done = TRUE]
    /\ CalcFrame

call_Scanner ==
    /\ pc = "calc"
    /\ call.fn = "Scanner"
    /\ ~call.done
    /\ call' = [call EXCEPT !.built = Scanner(call.patterns), !.done = TRUE]
    /\ CalcFrame

call_is_likely_secret ==
    /\ pc = "calc"
    /\ call.fn = "is_likely_secret"
    /\ ~call.done
    /\ call' = [call EXCEPT !.likely = is_likely_secret(call.text, call.min_entropy),
                            !.done = TRUE]
    /\ CalcFrame

\* _generate_scan_results on a CanaryScanner whose scanner is a Scanner: the
\* call of get_scan_statistics (156) comes before anything is built
call_generate_scan_results ==
    /\ pc = "calc"
    /\ call.fn = "_generate_scan_results"
    /\ ~call.done
    /\ call' = IF "get_scan_statistics" \in ScannerAttributes
               THEN [call EXCEPT !.results = _generate_scan_results(call.findings,
                                                 call.verbose, call.fail_on),
                                 !.done = TRUE]
               ELSE [call EXCEPT !.raised = "AttributeError", !.done = TRUE]
    /\ CalcFrame

NextCalc ==
    \/ call_calculate_exit_code
    \/ call_mask_secret
    \/ call_Scanner
    \/ call_is_likely_secret
    \/ call_generate_scan_results

SpecCalc == InitCalc /\ [][NextCalc]_vars

(***************************************************************************)
(* Claims                                                                  *)
(***************************************************************************)
HasConfidence(fs, tiers) == \E i \in 1..Len(fs) : fs[i].confidence \in tiers

\* C1: _calculate_exit_code returns 0 for an empty list of findings;
\* otherwise 1 under "any", 1 exactly when a High finding exists under
\* "high", 1 exactly when a High or Medium finding exists under "medium";
\* so Low-only findings give 0 under "medium" and under "high".
C1_ExitCodeFollowsThreshold ==
    (call.fn = "_calculate_exit_code" /\ call.done) =>
        LET fs      == call.findings
            fail_on == call.fail_on
        IN  /\ call.code \in {0, 1}
            /\ fs = <<>> => call.code = 0
            /\ (fs # <<>> /\ fail_on = "any") => call.code = 1
            /\ (fs # <<>> /\ fail_on = "high") =>
                   (call.code = 1 <=> HasConfidence(fs, {"High"}))
            /\ (fs # <<>> /\ fail_on = "medium") =>
                   (call.code = 1 <=> HasConfidence(fs, {"High", "Medium"}))
            /\ (fs # <<>> /\ ~HasConfidence(fs, {"High", "Medium"})
                  /\ fail_on \in {"medium", "high"}) => call.code = 0

\* C1 witness: a list of Low findings only has been judged under "medium"
C1_Witness_LowOnlyUnderMedium ==
    /\ call.fn = "_calculate_exit_code"
    /\ call.done
    /\ Len(call.findings) >= 2
    /\ ~HasConfidence(call.findings, {"High", "Medium"})
    /\ call.fail_on = "medium"
    /\ call.code = 0

\* C7: without verbose the preview has the length of the secret, never
\* equals a non-empty secret, is first 4 + '*' * (length - 8) + last 4 for
\* a secret longer than 8 and '*' * length otherwise; the raw secret is
\* returned only when verbose is true.
C7_MaskNeverEqualsSecret ==
    (call.fn = "_mask_secret" /\ call.done) =>
        LET secret  == call.secret
            verbose == call.verbose
            n       == Len(secret)
        IN  IF verbose THEN call.preview = secret
            ELSE /\ Len(call.preview) = n
                 /\ n > 8 => call.preview = SubSeq(secret, 1, 4)
                                        \o [i \in 1..(n - 8) |-> "*"]
                                        \o SubSeq(secret, n - 3, n)
                 /\ n <= 8 => call.preview = [i \in 1..n |-> "*"]
                 /\ secret # <<>> => call.preview # secret

(***************************************************************************)
(* What the claims about a run speak of.  The tables are functions of the  *)
(* file tree and the pattern set alone.                                    *)
(***************************************************************************)
RECURSIVE IsUnder(_, _)
\* directory d is r or lies below it
IsUnder(d, r) ==
    IF d = r THEN TRUE
    ELSE IF d = NoDir \/ DirInfo[d].parent = NoDir THEN FALSE
    ELSE IsUnder(DirInfo[d].parent, r)

\* the files of the tree a target names
FilesUnder ==
    [t \in Targets |->
        IF t.kind = "file" THEN {t.node}
        ELSE IF t.kind = "dir" THEN {f \in FileIds : IsUnder(FileDir(f), t.node)}
        ELSE {}]

\* the path under which a run on target t sees file f
PathTable ==
    [t \in Targets |->
        [f \in FilesUnder[t] |->
            IF t.kind = "file" THEN t.path
            ELSE path_join(DirPath(FileDir(f), t), FileInfo[f].name)]]

\* file f lies under a subdirectory, below the root t, named on the denylist
UnderDeniedDir ==
    [t \in Targets |->
        [f \in FilesUnder[t] |->
            \E d \in DirIds :
                /\ d # t.node
                /\ IsUnder(d, t.node)
                /\ IsUnder(FileDir(f), d)
                /\ DirInfo[d].name \in skip_dirs]]

\* the line is empty after trimming or its first non-whitespace character is '#'
BlankOrComment(raw) ==
    LET solid == {i \in 1..Len(raw) : raw[i] \notin Whitespace}
    IN  solid = {} \/ raw[MinOf(solid)] = "#"

LineIsSkipped ==
    [f \in FileIds |->
        [i \in 1..Len(FileInfo[f].lines) |-> BlankOrComment(FileInfo[f].lines[i])]]

\* what pattern k matches on the trimmed line i of file f
LineMatch ==
    [f \in FileIds |->
        [i \in 1..Len(FileInfo[f].lines) |->
            [k \in 1..Len(PatternList) |->
                regex_search(PatternList[k].regex, strip(FileInfo[f].lines[i]))]]]

\* the trimmed matched text has at least 12 characters and entropy of at
\* least 4.5 bits
PassesEntropyTest(match) ==
    /\ Len(strip(match)) >= 12
    /\ calculate_entropy(strip(match)) >= 4500000

MatchPassesEntropyTest ==
    [f \in FileIds |->
        [i \in 1..Len(FileInfo[f].lines) |->
            [k \in 1..Len(PatternList) |-> PassesEntropyTest(LineMatch[f][i][k])]]]

FilesOfRun == FilesUnder[args.target]

PathOf(f) == PathTable[args.target][f]

\* a Finding of rule_id at line i of file f is in the sequence fs
Reported(fs, f, i, rule_id) ==
    \E j \in 1..Len(fs) :
        /\ fs[j].line_number = i
        /\ fs[j].rule_id = rule_id
        /\ fs[j].file_path = PathOf(f)

NoFindingOf(fs, f) == \A j \in 1..Len(fs) : fs[j].file_path # PathOf(f)

\* some pattern of the given tiers matches the text of some line of f
HasMatchingText(f, tiers) ==
    \E i \in 1..Len(FileInfo[f].lines), k \in 1..Len(PatternList) :
        /\ PatternList[k].confidence \in tiers
        /\ regex_search(PatternList[k].regex, FileInfo[f].lines[i]) # NoMatch

\* the run ended on its own, not by an interrupt
EndedUninterrupted == pc = "done" /\ interrupt = NoInterrupt

\* C2: a complete run over an existing file or directory with a loaded
\* pattern set ends with the exit code of the results: 0 without qualifying
\* findings under the threshold, 1 with them; it does not end with 2.
C2_CompleteRunExitsWithVerdict ==
    (/\ EndedUninterrupted
     /\ args.target.kind \in {"file", "dir"}
     /\ patterns_loadable
     /\ (args.report_url => args.repository)) =>
        /\ exit_code \in {0, 1}
        /\ exit_code = 1 <=>
              \/ args.fail_on = "any" /\ findings # <<>>
              \/ args.fail_on = "high" /\ HasConfidence(findings, {"High"})
              \/ args.fail_on = "medium" /\ HasConfidence(findings, {"High", "Medium"})
        /\ results.made
        /\ results.ci_metadata.exit_code = exit_code

\* C3: a line that is empty after trimming, or whose first non-whitespace
\* character is '#', never yields a Finding, whatever pattern matches it.
C3_SkippedLinesYieldNothing ==
    \A f \in FilesOfRun : \A i \in 1..lines_read[f] :
        LineIsSkipped[f][i] =>
            \A k \in 1..Len(PatternList) :
                ~Reported(yielded, f, i, PatternList[k].rule_id)

\* C3 witness: two files have been read to the end, one with a '#' line
\* that a High pattern matches, one with an indented '#' line that a Medium
\* pattern matches
C3_Witness_CommentWithSecretRead ==
    \E f \in FilesOfRun, g \in FilesOfRun :
        /\ outcome[f] = "complete" /\ outcome[g] = "complete"
        /\ \E i \in 1..lines_read[f] :
              /\ LineIsSkipped[f][i]
              /\ \E k \in 1..Len(PatternList) :
                    /\ PatternList[k].confidence = "High"
                    /\ regex_search(PatternList[k].regex, FileInfo[f].lines[i]) # NoMatch
        /\ \E i \in 1..lines_read[g] :
              /\ LineIsSkipped[g][i]
              /\ FileInfo[g].lines[i][1] \in Whitespace
              /\ \E k \in 1..Len(PatternList) :
                    /\ PatternList[k].confidence = "Medium"
                    /\ regex_search(PatternList[k].regex, FileInfo[g].lines[i]) # NoMatch

\* C4: on a scanned line every High or Medium pattern that matches yields
\* a Finding whatever the entropy or length of the matched text; a Low
\* pattern yields one exactly when the trimmed matched text has at least
\* 12 characters and entropy at least 4.5.
C4_EntropyGatesLowTierOnly ==
    \A f \in FilesOfRun : \A i \in 1..lines_read[f] :
        ~LineIsSkipped[f][i] =>
            \A k \in 1..Len(PatternList) :
                LET found == Reported(yielded, f, i, PatternList[k].rule_id)
                IN  /\ PatternList[k].confidence \in {"High", "Medium"} =>
                           (found <=> LineMatch[f][i][k] # NoMatch)
                    /\ PatternList[k].confidence = "Low" =>
                           (found <=> /\ LineMatch[f][i][k] # NoMatch
                                      /\ MatchPassesEntropyTest[f][i][k])

\* C4 witness: the scan has returned with a High or Medium finding whose
\* text fails the entropy test, a Low finding, and a line on which a Low
\* pattern matched without a Finding
C4_Witness_TrustedKeptLowDropped ==
    /\ pc = "results"
    /\ \E j \in 1..Len(findings) :
          /\ findings[j].confidence \in {"High", "Medium"}
          /\ ~PassesEntropyTest(findings[j].matched_string)
    /\ \E j \in 1..Len(findings) : findings[j].confidence = "Low"
    /\ \E f \in FilesOfRun : \E i \in 1..lines_read[f] : \E k \in 1..Len(PatternList) :
          /\ ~LineIsSkipped[f][i]
          /\ PatternList[k].confidence = "Low"
          /\ LineMatch[f][i][k] # NoMatch
          /\ ~Reported(yielded, f, i, PatternList[k].rule_id)

\* the extension of the path, compared case-insensitively, is on the deny-list
ExtensionDenied ==
    [t \in Targets |->
        [f \in FilesUnder[t] |->
            lower(splitext_ext(PathTable[t][f])) \in skip_extensions]]

\* the file has a null byte within its first 1024 bytes
EarlyNullByte(f) == FileInfo[f].nullAt >= 1 /\ FileInfo[f].nullAt <= 1024

\* file f is one that should_skip_file is to answer true for
MustBeSkipped(f) ==
    \/ EarlyNullByte(f)
    \/ ExtensionDenied[args.target][f]
    \/ <<f, "binary_check">> \in io_failed

\* scan_file has been called on f and is past should_skip_file
PastSkipCheck(f) ==
    /\ \E j \in 1..Len(handed) : handed[j] = f
    /\ ~(cur_file = f /\ (pc \in {"skipcheck", "binread"}
                            \/ interrupt.at \in {"skipcheck", "binread"}))

\* C5: a file with a null byte in its first 1024 bytes, a file whose
\* extension is on the deny-list whatever its case, and a file that cannot
\* be opened for the binary check are skipped by should_skip_file, and
\* scan_file yields nothing for them and never reads their text.
C5_SkippedFilesYieldNothing ==
    \A f \in FilesOfRun :
        MustBeSkipped(f) =>
            /\ PastSkipCheck(f) => outcome[f] = "skipped"
            /\ outcome[f] \in {"unvisited", "skipped"}
            /\ lines_read[f] = 0
            /\ <<f, "r">> \notin open_fds
            /\ NoFindingOf(yielded, f)
            /\ NoFindingOf(all_findings, f)
            /\ NoFindingOf(findings, f)

\* C5 witness: the walk has returned having skipped a file with an early
\* null byte, a file with an upper-case extension of the deny-list and a
\* file whose binary check could not open it, each with matching text
C5_Witness_AllThreeSkipped ==
    /\ pc = "results"
    /\ \E f \in FilesOfRun, g \in FilesOfRun, h \in FilesOfRun :
          /\ EarlyNullByte(f) /\ ~ExtensionDenied[args.target][f]
          /\ ExtensionDenied[args.target][g] /\ ~EarlyNullByte(g)
          /\ splitext_ext(PathOf(g)) \notin skip_extensions
          /\ <<h, "binary_check">> \in io_failed
          /\ ~EarlyNullByte(h) /\ ~ExtensionDenied[args.target][h]
          /\ \A x \in {f, g, h} :
                /\ outcome[x] = "skipped"
                /\ HasMatchingText(x, {"High", "Medium"})

\* C6: scan_directory never passes to scan_file, and so never reports, a
\* file under a subdirectory at any depth below the root whose name is on
\* the directory denylist.
C6_DeniedDirectoriesNeverScanned ==
    scan_type = "directory" =>
        \A f \in FilesOfRun :
            UnderDeniedDir[args.target][f] =>
                /\ \A j \in 1..Len(handed) : handed[j] # f
                /\ outcome[f] = "unvisited"
                /\ lines_read[f] = 0
                /\ NoFindingOf(yielded, f)
                /\ NoFindingOf(all_findings, f)
                /\ NoFindingOf(findings, f)
                /\ \A d \in DirIds :
                      (d # args.target.node /\ DirInfo[d].name \in skip_dirs
                         /\ IsUnder(d, args.target.node))
                      => (walk_root # d /\ \A j \in 1..Len(walk_stack) : walk_stack[j] # d)

\* C6 witness: a walk has returned findings from a tree that holds files
\* with matching text under a denied directory at depth 1 and under one
\* at depth 2
C6_Witness_WalkPastDeniedDirs ==
    /\ pc = "results"
    /\ scan_type = "directory"
    /\ findings # <<>>
    /\ \E f \in FilesOfRun, g \in FilesOfRun :
          /\ UnderDeniedDir[args.target][f] /\ UnderDeniedDir[args.target][g]
          /\ DirInfo[FileDir(f)].parent = args.target.node
          /\ DirInfo[FileDir(g)].parent # args.target.node
          /\ HasMatchingText(f, {"High"})
          /\ HasMatchingText(g, {"Medium"})

\* the files a walk of target t is to pass to scan_file, in walk order:
\* the files of a directory, then its subdirectories that are not denied
RECURSIVE WalkOrder(_, _)
WalkOrder(dirs, t) ==
    IF dirs = <<>> THEN <<>>
    ELSE LET d    == Head(dirs)
             subs == SelectSeq(DirInfo[d].subdirs,
                               LAMBDA x : DirInfo[x].name \notin skip_dirs)
         IN  DirInfo[d].files \o WalkOrder(subs, t) \o WalkOrder(Tail(dirs), t)

ExpectedWalk ==
    [t \in Targets |-> IF t.kind = "dir" THEN WalkOrder(<<t.node>>, t) ELSE <<>>]

\* the findings of the first n lines of file f, as the run on t sees it
RECURSIVE FindingsOfLines(_, _, _)
FindingsOfLines(t, f, n) ==
    IF n = 0 THEN <<>>
    ELSE FindingsOfLines(t, f, n - 1)
         \o scan_line(Scanner(PatternList), PathTable[t][f], n, FileInfo[f].lines[n])

FindingsTable ==
    [t \in Targets |->
        [f \in FilesUnder[t] |->
            [n \in 0..Len(FileInfo[f].lines) |-> FindingsOfLines(t, f, n)]]]

\* the findings of the lines read of each of the files fs, in order
RECURSIVE FindingsOfRead(_)
FindingsOfRead(fs) ==
    IF fs = <<>> THEN <<>>
    ELSE FindingsTable[args.target][Head(fs)][lines_read[Head(fs)]]
         \o FindingsOfRead(Tail(fs))

\* file f failed: it could not be opened, or reading it failed part-way
Failed(f) == \E stage \in {"binary_check", "open", "read"} : <<f, stage>> \in io_failed

\* C8: a failure confined to one file never aborts the walk nor raises to
\* the caller: scan_directory returns, every file of the walk has been
\* passed to scan_file, every file that did not fail is skipped for cause
\* or read to its end, and the returned list holds, in walk order, the
\* findings of every line read, those of a failing file before its failure
\* included.
C8_FileFailureNeverAbortsWalk ==
    /\ (scan_type = "directory" /\ pc = "results") =>
          /\ handed = ExpectedWalk[args.target]
          /\ findings = FindingsOfRead(handed)
          /\ \A j \in 1..Len(handed) :
                LET f == handed[j]
                IN  /\ outcome[f] \in {"skipped", "complete", "open_failed", "read_failed"}
                    /\ ~Failed(f) =>
                          \/ outcome[f] = "skipped" /\ MustBeSkipped(f)
                          \/ outcome[f] = "complete"
                             /\ lines_read[f] = Len(FileInfo[f].lines)
    /\ (scan_type = "directory" /\ EndedUninterrupted) =>
          /\ handed = ExpectedWalk[args.target]
          /\ stderr = "unexpected error"

\* C8 witness: the walk has returned after a read failure part-way through
\* a file: the findings of that file's earlier lines and those of a file
\* scanned after it are in the returned list
C8_Witness_PartialFileKept ==
    /\ pc = "results"
    /\ scan_type = "directory"
    /\ \E a \in 1..Len(handed), b \in 1..Len(handed) :
          /\ a < b
          /\ outcome[handed[a]] = "read_failed"
          /\ lines_read[handed[a]] < Len(FileInfo[handed[a]].lines)
          /\ ~NoFindingOf(findings, handed[a])
          /\ outcome[handed[b]] = "complete"
          /\ ~NoFindingOf(findings, handed[b])

\* C9: when an interrupt arrives while scan_directory walks the tree, the
\* findings aggregated so far are returned and reported, and the run is
\* marked as interrupted with exit code 130.  (Stated of the interrupts
\* that arrive once something has been aggregated.)
C9_InterruptReportsPartialFindings ==
    (/\ pc = "done"
     /\ scan_type = "directory"
     /\ interrupt.at \in {"walk", "files", "skipcheck", "binread", "open", "read"}
     /\ interrupt.aggregated # <<>>) =>
        /\ exit_code = 130
        /\ findings = interrupt.aggregated
        /\ results.made
        /\ results.total_findings = Len(interrupt.aggregated)

\* C10: when the target path does not exist, or is neither a file nor a
\* directory, no file is scanned, no results are produced (so none can be
\* sent to the dashboard) and the run, unless interrupted, ends with exit
\* code 2.
C10_MissingPathIsFatal ==
    args.target.kind \in {"missing", "other"} =>
        /\ pc \in {"start", "init", "config", "scan", "done"}
        /\ (args.target.kind = "missing" => pc \in {"start", "done"})
        /\ handed = <<>>
        /\ yielded = <<>>
        /\ open_fds = {}
        /\ io_failed = {}
        /\ \A f \in FileIds : outcome[f] = "unvisited" /\ lines_read[f] = 0
        /\ results = NoResults
        /\ EndedUninterrupted => exit_code = 2

\* C10 witness: scan_target has refused a path that exists but is neither
\* a file nor a directory
C10_Witness_ScanTargetRefused ==
    /\ EndedUninterrupted
    /\ args.target.kind = "other"
    /\ stderr = "target path does not exist"
    /\ exit_code = 2

(***************************************************************************)
(* C11: when load_patterns fails, the failure leaves CanaryScanner          *)
(* construction before scan_target is called: no scanner is built, no file *)
(* is handed to scan_file, nothing is yielded, no results are made, and a  *)
(* run that got as far as the construction ends with exit code 2.          *)
(***************************************************************************)
C11_PatternLoadFailureIsFatal ==
    ~patterns_loadable =>
        /\ scanner = NoScanner
        /\ scan_type = "-"
        /\ handed = <<>>
        /\ yielded = <<>>
        /\ results = NoResults
        /\ exit_code # 0
        /\ (pc \notin {"start", "init"} /\ interrupt = NoInterrupt) =>
               /\ pc = "done"
               /\ exit_code = 2

C11_Witness_ConstructionFailed ==
    /\ ~patterns_loadable
    /\ path_exists(args.target)
    /\ interrupt = NoInterrupt
    /\ pc = "done"
    /\ stderr = "unexpected error"
    /\ exit_code = 2

(***************************************************************************)
(* Claims about Scanner construction and is_likely_secret (SpecCalc)       *)
(***************************************************************************)
TierBucket(sc, tier) ==
    CASE tier = "High"   -> sc.high_confidence_patterns
      [] tier = "Medium" -> sc.medium_confidence_patterns
      [] tier = "Low"    -> sc.low_confidence_patterns

Occurrences(s, x) == Cardinality({i \in 1..Len(s) : s[i] = x})

\* the positions of the list that hold a pattern of the tier
TierPositions(ps, tier) == {i \in 1..Len(ps) : ps[i].confidence = tier}

\* the k-th smallest member of a set of positions
KthPosition(P, k) == CHOOSE i \in P : Cardinality({j \in P : j <= i}) = k

\* C12: after Scanner construction every pattern of the list is in exactly
\* one of the three tier buckets, as often as it is in the list, and each
\* bucket holds the patterns of its tier in the order of the list.
C12_EveryPatternInOneBucketInOrder ==
    (call.fn = "Scanner" /\ call.done) =>
        LET ps == call.patterns
            sc == call.built
        IN  /\ sc.patterns = ps
            /\ \A p \in Range(ps) :
                   /\ \E tier \in {"High", "Medium", "Low"} :
                          /\ Occurrences(TierBucket(sc, tier), p) = Occurrences(ps, p)
                          /\ \A other \in {"High", "Medium", "Low"} \ {tier} :
                                 Occurrences(TierBucket(sc, other), p) = 0
            /\ \A tier \in {"High", "Medium", "Low"} :
                   LET b == TierBucket(sc, tier)
                       P == TierPositions(ps, tier)
                   IN  /\ Len(b) = Cardinality(P)
                       /\ \A k \in 1..Len(b) : b[k] = ps[KthPosition(P, k)]

\* C12 witness: a list that interleaves the tiers, with two different High
\* patterns around a Low and a Medium one, has been partitioned
C12_Witness_InterleavedTiers ==
    /\ call.fn = "Scanner"
    /\ call.done
    /\ Len(call.patterns) = 4
    /\ call.patterns[1].confidence = "High"
    /\ call.patterns[2].confidence = "Low"
    /\ call.patterns[3].confidence = "Medium"
    /\ call.patterns[4].confidence = "High"
    /\ call.patterns[1] # call.patterns[4]
    /\ call.built.high_confidence_patterns = <<call.patterns[1], call.patterns[4]>>
    /\ call.built.medium_confidence_patterns = <<call.patterns[3]>>
    /\ call.built.low_confidence_patterns = <<call.patterns[2]>>

\* C13: is_likely_secret returns false for every text of fewer than 12
\* characters, whatever its characters and whatever min_entropy is.
C13_ShortTextNeverLikelySecret ==
    (call.fn = "is_likely_secret" /\ call.done /\ Len(call.text) < 12) =>
        ~call.likely

\* C13 witness: a text of 11 distinct characters, whose entropy is above the
\* min_entropy passed, has been judged not to be a secret
C13_Witness_ElevenDistinctCharacters ==
    /\ call.fn = "is_likely_secret"
    /\ call.done
    /\ Len(call.text) = 11
    /\ Cardinality(Range(call.text)) = 11
    /\ call.min_entropy = 3000000
    /\ calculate_entropy(call.text) >= call.min_entropy
    /\ ~call.likely

(***************************************************************************)
(* Claims about the findings scan_file yields (Spec)                       *)
(***************************************************************************)
TierRank(confidence) ==
    CASE confidence = "High"   -> 1
      [] confidence = "Medium" -> 2
      [] confidence = "Low"    -> 3

\* the place of the rule in the pattern list handed to Scanner
RuleIndex(rule_id) ==
    CHOOSE k \in 1..Len(PatternList) : PatternList[k].rule_id = rule_id

\* the place of the file with this path among the files handed to scan_file
HandedIndex(file_path) ==
    CHOOSE h \in 1..Len(handed) : PathOf(handed[h]) = file_path

\* finding a is yielded before finding b of the same file
YieldedInOrder(a, b) ==
    \/ a.line_number < b.line_number
    \/ /\ a.line_number = b.line_number
       /\ \/ TierRank(a.confidence) < TierRank(b.confidence)
          \/ /\ a.confidence = b.confidence
             /\ RuleIndex(a.rule_id) < RuleIndex(b.rule_id)

\* C14: every Finding yielded carries the path of a file handed to
\* scan_file and the 1-based position, skipped lines counted, of a line
\* read from that file which is not skipped and which its rule matches;
\* findings come file by file, within a file in non-decreasing line number,
\* and within a line High before Medium before Low, each tier in pattern
\* order.
C14_FindingsLocatedAndOrdered ==
    /\ \A j \in 1..Len(yielded) :
           LET y == yielded[j]
           IN  \E f \in Range(handed) :
                   /\ y.file_path = PathOf(f)
                   /\ y.line_number \in 1..lines_read[f]
                   /\ ~LineIsSkipped[f][y.line_number]
                   /\ LineMatch[f][y.line_number][RuleIndex(y.rule_id)] # NoMatch
                   /\ y.matched_string =
                          strip(LineMatch[f][y.line_number][RuleIndex(y.rule_id)])
                   /\ y.confidence = PatternList[RuleIndex(y.rule_id)].confidence
    /\ \A j \in 1..(Len(yielded) - 1) :
           LET a == yielded[j]
               b == yielded[j + 1]
           IN  IF a.file_path = b.file_path
               THEN YieldedInOrder(a, b)
               ELSE HandedIndex(a.file_path) < HandedIndex(b.file_path)

\* C14 witness: the third line of a file, after a comment line and a blank
\* line, has yielded a High, a Medium and two Low findings in that order,
\* and the fourth line a finding after them
C14_Witness_ThreeTiersOnLineThree ==
    \E f \in Range(handed), j \in 1..Len(yielded) :
        /\ j + 4 <= Len(yielded)
        /\ LineIsSkipped[f][1]
        /\ LineIsSkipped[f][2]
        /\ \A k \in j..(j + 4) : yielded[k].file_path = PathOf(f)
        /\ \A k \in j..(j + 3) : yielded[k].line_number = 3
        /\ yielded[j].confidence = "High"
        /\ yielded[j + 1].confidence = "Medium"
        /\ yielded[j + 2].confidence = "Low"
        /\ yielded[j + 3].confidence = "Low"
        /\ RuleIndex(yielded[j + 2].rule_id) < RuleIndex(yielded[j + 3].rule_id)
        /\ yielded[j + 4].line_number = 4

\* the findings of fs located at line i of file f
FindingsAt(fs, f, i) ==
    {j \in 1..Len(fs) : fs[j].file_path = PathOf(f) /\ fs[j].line_number = i}

\* the patterns that report on line i of file f: the High and Medium ones
\* that match it, and the Low ones whose first match passes the entropy test
ReportingPatterns ==
    [f \in FileIds |->
        [i \in 1..Len(FileInfo[f].lines) |->
            {k \in 1..Len(PatternList) :
                /\ LineMatch[f][i][k] # NoMatch
                /\ \/ PatternList[k].confidence \in {"High", "Medium"}
                   \/ /\ PatternList[k].confidence = "Low"
                      /\ MatchPassesEntropyTest[f][i][k]}]]

\* C15: for every line read of a file handed to scan_file that is not
\* skipped, the Findings of the line are as many as the High and Medium
\* patterns matching it plus the Low patterns whose first match passes the
\* entropy test, one Finding per such pattern and none for any other; so a
\* pattern reports at most once per line and a match in one tier does not
\* suppress a match in another.
C15_OneFindingPerReportingPattern ==
    \A h \in 1..Len(handed) :
        LET f == handed[h]
        IN  \A i \in 1..lines_read[f] :
                ~LineIsSkipped[f][i] =>
                    /\ Cardinality(FindingsAt(yielded, f, i))
                           = Cardinality(ReportingPatterns[f][i])
                    /\ \A k \in 1..Len(PatternList) :
                           Cardinality({j \in FindingsAt(yielded, f, i) :
                                           yielded[j].rule_id = PatternList[k].rule_id})
                               = IF k \in ReportingPatterns[f][i] THEN 1 ELSE 0

\* C15 witness: a line holding two matches of the Medium pattern has
\* yielded one Finding, for the first; a line matched in all three tiers
\* has yielded four Findings; and a line whose first Low match fails the
\* entropy test, with a later text that would pass, has yielded none for it
C15_Witness_RepeatedAndCrossTierMatches ==
    /\ \E f \in Range(handed) :
           /\ lines_read[f] >= 1
           /\ FileInfo[f].lines[1] = L_pw
           /\ Cardinality(FindingsAt(yielded, f, 1)) = 1
           /\ \E j \in FindingsAt(yielded, f, 1) :
                  yielded[j].matched_string = <<"p","w","=","x","1">>
    /\ \E f \in Range(handed) :
           /\ lines_read[f] >= 3
           /\ FileInfo[f].lines[3] = L_mixed
           /\ Cardinality(FindingsAt(yielded, f, 3)) = 4
           /\ {yielded[j].confidence : j \in FindingsAt(yielded, f, 3)}
                  = {"High", "Medium", "Low"}
    /\ \E f \in Range(handed) :
           /\ lines_read[f] >= 3
           /\ FileInfo[f].lines[3] = L_repeat
           /\ PassesEntropyTest(SubSeq(L_repeat, 17, 39))
           /\ {yielded[j].rule_id : j \in FindingsAt(yielded, f, 3)} = {"PASSWORD"}

(***************************************************************************)
(* Claims about the results of _generate_scan_results (SpecCalc)           *)
(***************************************************************************)
\* C16: _generate_scan_results, given findings that are all Low and a
\* fail_on of "medium" or "high", builds results whose ci_metadata has
\* exit_code 0 and pipeline_should_fail false; and in any results it builds
\* pipeline_should_fail is true exactly when exit_code is 1.
C16_LowOnlyPassesPipeline ==
    (call.fn = "_generate_scan_results" /\ call.done) =>
        /\ (/\ call.findings # <<>>
            /\ ~HasConfidence(call.findings, {"High", "Medium"})
            /\ call.fail_on \in {"medium", "high"}) =>
               /\ call.results.made
               /\ call.results.ci_metadata.exit_code = 0
               /\ ~call.results.ci_metadata.pipeline_should_fail
        /\ call.results.made =>
               (call.results.ci_metadata.pipeline_should_fail
                    <=> call.results.ci_metadata.exit_code = 1)

\* C17: _generate_scan_results builds results in which
\* severity_breakdown.critical, .medium and .low are the numbers of High,
\* Medium and Low findings, their sum is total_findings, and the findings
\* list has total_findings entries in the order of the input.
C17_BreakdownCountsFindings ==
    (call.fn = "_generate_scan_results" /\ call.done) =>
        LET fs == call.findings
            r  == call.results
        IN  /\ r.made
            /\ r.severity_breakdown.critical
                   = Cardinality({i \in 1..Len(fs) : fs[i].confidence = "High"})
            /\ r.severity_breakdown.medium
                   = Cardinality({i \in 1..Len(fs) : fs[i].confidence = "Medium"})
            /\ r.severity_breakdown.low
                   = Cardinality({i \in 1..Len(fs) : fs[i].confidence = "Low"})
            /\ r.severity_breakdown.critical + r.severity_breakdown.medium
                   + r.severity_breakdown.low = r.total_findings
            /\ Len(r.findings) = r.total_findings
            /\ Len(r.findings) = Len(fs)
            /\ \A i \in 1..Len(fs) :
                   /\ r.findings[i].confidence = fs[i].confidence
                   /\ r.findings[i].rule_id = fs[i].rule_id
                   /\ r.findings[i].file_path = fs[i].file_path
                   /\ r.findings[i].line_number = fs[i].line_number

(***************************************************************************)
(* Claims about file descriptors and about the end of main (Spec)          *)
(***************************************************************************)
\* the scan of file f has ended
ScanEnded(f) ==
    \/ outcome[f] \in {"skipped", "complete", "open_failed", "read_failed"}
    \/ /\ f \in Range(handed)
       /\ pc = "done"

\* C18: the descriptor of the binary check and the descriptor of the text
\* read are closed on every way out: no descriptor of a file is open once
\* its scan has ended, be it read to its end, failed by a read that raised,
\* or abandoned because the consumer stopped (an interrupt); at most the
\* file being scanned has a descriptor open, and one only.
C18_DescriptorsClosedOnEveryExit ==
    /\ \A f \in FileIds :
           ScanEnded(f) => (<<f, "rb">> \notin open_fds /\ <<f, "r">> \notin open_fds)
    /\ \A fd \in open_fds : fd[1] = cur_file
    /\ Cardinality(open_fds) <= 1
    /\ pc \in {"walk", "files", "results", "done"} => open_fds = {}

\* C18 witness: the walk has returned after one file was read to its end,
\* the read of another raised after some of its lines, and the binary check
\* of a third failed; no descriptor is open
C18_Witness_ClosedAfterFailures ==
    /\ pc = "results"
    /\ open_fds = {}
    /\ \E f \in Range(handed), g \in Range(handed), h \in Range(handed) :
          /\ outcome[f] = "complete"
          /\ outcome[g] = "read_failed"
          /\ lines_read[g] >= 1
          /\ <<h, "binary_check">> \in io_failed
          /\ outcome[h] = "skipped"

\* C19: a completed scan with --report-url configured ends with results
\* made and with the exit code of the results, ci_metadata.exit_code,
\* whether or not the dashboard took the submission.
C19_DashboardFailureKeepsExitCode ==
    (/\ EndedUninterrupted
     /\ scan_type \in {"file", "directory"}
     /\ args.report_url
     /\ dashboard_url) =>
        /\ results.made
        /\ exit_code = results.ci_metadata.exit_code

=============================================================================
